---- MODULE Spec2Model ----
(***************************************************************************)
(* Four-way stop-sign intersection of tc.c: one thread per car running     *)
(* ArriveIntersection, CrossIntersection, ExitIntersection against the     *)
(* head-of-line semaphores, the direction flow state and the quadrant      *)
(* mutexes.  Sleeps (usleep, Spin) are delays without a deadline, so they  *)
(* are steps that take any amount of time: every interleaving of the car   *)
(* threads is a behaviour.                                                 *)
(***************************************************************************)
EXTENDS Integers, Sequences, FiniteSets, TLC

\* ------------------------------------------------------------------ bounds

\* Largest number of consecutive entries of the hard-coded manifest run at once.
MaxCars == 3

\* Largest manifest whose printed lines are recorded in log; in a larger one
\* log_event still takes print_lock and prints, and the lines are not kept.
MaxLogCars == 2

\* ------------------------------------------------------- program constants

NUM_CARS == 8

DIR_N == 0
DIR_E == 1
DIR_S == 2
DIR_W == 3

\* The quadrant indices of quad[]: 0 = NW, 1 = NE, 2 = SE, 3 = SW.
NW == 0
NE == 1
SE == 2
SW == 3

LEFT_T == "LEFT_T"
STRAIGHT_T == "STRAIGHT_T"
RIGHT_T == "RIGHT_T"

\* The four direction characters of the manifest.
DirChars == {"^", ">", "v", "<"}

\* The hard-coded manifest cars[NUM_CARS] (cid, dirs; the arrival time is a delay).
HardCodedCars ==
  << [cid |-> 1, dir_original |-> "^", dir_target |-> "^"],
     [cid |-> 2, dir_original |-> "^", dir_target |-> "^"],
     [cid |-> 3, dir_original |-> "^", dir_target |-> "<"],
     [cid |-> 4, dir_original |-> "v", dir_target |-> "v"],
     [cid |-> 5, dir_original |-> "v", dir_target |-> ">"],
     [cid |-> 6, dir_original |-> "^", dir_target |-> "^"],
     [cid |-> 7, dir_original |-> ">", dir_target |-> "^"],
     [cid |-> 8, dir_original |-> "<", dir_target |-> "^"] >>

\* Manifests the model runs: every run of at most MaxCars consecutive entries
\* of the hard-coded manifest, and every single car of any origin and target.
Manifests ==
  { SubSeq(HardCodedCars, i, j) :
      <<i, j>> \in { p \in (1..NUM_CARS) \X (1..NUM_CARS) :
                       p[1] <= p[2] /\ p[2] - p[1] + 1 <= MaxCars } }
  \cup { << [cid |-> 1, dir_original |-> o, dir_target |-> t] >> :
           <<o, t>> \in DirChars \X DirChars }

\* --------------------------------------------------------------- state

VARIABLES
  cars,               \* the manifest: sequence of car_t
  pc,                 \* pc[c]: where car thread c is
  q,                  \* q[c]: the local array q[] of CrossIntersection (filled part)
  qi,                 \* qi[c]: loop index i of lock_quads / unlock_quads
  quad,               \* quad[k]: the threads holding quadrant mutex k
  print_lock,         \* the threads holding print_lock
  turn_lock,          \* the threads holding turn_lock
  turn_cv,            \* the threads asleep on turn_cv
  current_direction,
  flow_count,
  hol_sem,            \* hol_sem[d]: the semaphore's value
  log,                \* the lines printed by log_event: <<cid, event>>
  main_pc,            \* main: "create", "join", "exit"
  main_i,             \* main's loop index i
  slept_under         \* history: the owners c has slept under while waiting to join

vars == << cars, pc, q, qi, quad, print_lock, turn_lock, turn_cv,
           current_direction, flow_count, hol_sem, log, main_pc, main_i, slept_under >>

Threads == 1..Len(cars)

\* ------------------------------------------------------------ helpers

\* dir_index: direction character to array index, -1 when it is none of the four.
dir_index(d) ==
  CASE d = "^" -> DIR_N
    [] d = ">" -> DIR_E
    [] d = "v" -> DIR_S
    [] d = "<" -> DIR_W
    [] OTHER   -> -1

\* The local d of ArriveIntersection and ExitIntersection.
Dir(c) == dir_index(cars[c].dir_original)

\* get_turn with Right and Left exchanged for a car from West.
get_turn_swapped(d) ==
  LET o == d.dir_original
      t == d.dir_target
  IN  IF o = t THEN STRAIGHT_T
      ELSE IF o = "^" /\ t = ">" THEN RIGHT_T
      ELSE IF o = "^" /\ t = "<" THEN LEFT_T
      ELSE IF o = "v" /\ t = "<" THEN RIGHT_T
      ELSE IF o = "v" /\ t = ">" THEN LEFT_T
      ELSE IF o = ">" /\ t = "v" THEN RIGHT_T
      ELSE IF o = ">" /\ t = "^" THEN LEFT_T
      ELSE IF o = "<" /\ t = "^" THEN LEFT_T
      ELSE IF o = "<" /\ t = "v" THEN RIGHT_T
      ELSE STRAIGHT_T

\* get_turn: the turn kind of a directions pair.
get_turn(d) ==
  LET o == d.dir_original
      t == d.dir_target
  IN  IF o = t THEN STRAIGHT_T
      ELSE IF o = "^" /\ t = ">" THEN RIGHT_T
      ELSE IF o = "^" /\ t = "<" THEN LEFT_T
      ELSE IF o = "v" /\ t = "<" THEN RIGHT_T
      ELSE IF o = "v" /\ t = ">" THEN LEFT_T
      ELSE IF o = ">" /\ t = "v" THEN RIGHT_T
      ELSE IF o = ">" /\ t = "^" THEN LEFT_T
      ELSE IF o = "<" /\ t = "^" THEN RIGHT_T
      ELSE IF o = "<" /\ t = "v" THEN LEFT_T
      ELSE STRAIGHT_T

\* get_quads: the quadrants written to q[], in the order written (n is the length).
get_quads(car) ==
  LET o == car.dir_original
      t == get_turn([dir_original |-> car.dir_original, dir_target |-> car.dir_target])
  IN  IF o = "^" THEN
        (IF t = RIGHT_T THEN <<1>> ELSE IF t = STRAIGHT_T THEN <<1, 2>> ELSE <<1, 2, 3>>)
      ELSE IF o = ">" THEN
        (IF t = RIGHT_T THEN <<2>> ELSE IF t = STRAIGHT_T THEN <<2, 3>> ELSE <<2, 3, 0>>)
      ELSE IF o = "v" THEN
        (IF t = RIGHT_T THEN <<3>> ELSE IF t = STRAIGHT_T THEN <<3, 0>> ELSE <<3, 0, 1>>)
      ELSE IF o = "<" THEN
        (IF t = RIGHT_T THEN <<0>> ELSE IF t = STRAIGHT_T THEN <<0, 1>> ELSE <<0, 1, 2>>)
      ELSE << >>

\* The exchange sort of lock_quads: for i, for j > i, swap when q[j] < q[i].
\* Indices are the code's 0-based i and j; the sequence is 1-based.
RECURSIVE SortFrom(_, _, _)
SortFrom(s, i, j) ==
  IF i >= Len(s) THEN s
  ELSE IF j >= Len(s) THEN SortFrom(s, i + 1, i + 2)
  ELSE IF s[j + 1] < s[i + 1]
       THEN SortFrom([s EXCEPT ![i + 1] = s[j + 1], ![j + 1] = s[i + 1]], i, j + 1)
       ELSE SortFrom(s, i, j + 1)

\* lock_quads without its sort.
SortQuadsSkipped(s) == s

SortQuads(s) == SortFrom(s, 0, 1)

\* A lock that never waits.
MutexAlwaysAvailable(m) == TRUE

\* Pthread_mutex_lock returns only when no thread holds the mutex.
MutexAvailable(m) == m = {}

\* The while test with == for the second !=.
MustWaitOwnDirection(d) == current_direction # -1 /\ current_direction = d

\* The test of the while loop of ArriveIntersection.
MustWait(d) == current_direction # -1 /\ current_direction # d

\* ------------------------------------------------------------ log_event

\* The output after one more line is printed.
Printed(c, event) ==
  IF Len(cars) <= MaxLogCars THEN Append(log, <<cars[c].cid, event>>) ELSE log

\* log_event up to the printf: take print_lock and print the line.
log_event_lock(c, from, event, to) ==
  /\ pc[c] = from
  /\ MutexAvailable(print_lock)
  /\ print_lock' = print_lock \cup {c}
  /\ log' = Printed(c, event)
  /\ pc' = [pc EXCEPT ![c] = to]
  /\ UNCHANGED << cars, q, qi, quad, turn_lock, turn_cv, current_direction,
                  flow_count, hol_sem, main_pc, main_i, slept_under >>

\* log_event's Pthread_mutex_unlock(&print_lock) and return.
log_event_unlock(c, from, to) ==
  /\ pc[c] = from
  /\ print_lock' = print_lock \ {c}
  /\ pc' = [pc EXCEPT ![c] = to]
  /\ UNCHANGED << cars, q, qi, quad, turn_lock, turn_cv, current_direction,
                  flow_count, hol_sem, log, main_pc, main_i, slept_under >>

\* ------------------------------------------------------ ArriveIntersection

ArriveLog(c) == log_event_lock(c, "arriving", "arriving", "arriving_unlock")

\* End of log_event("arriving"); the usleep of the stop sign follows.
ArriveLogDone(c) == log_event_unlock(c, "arriving_unlock", "sem_wait")

\* sem_wait that decrements without waiting for a positive value.
ArriveSemWaitNoBlock(c) ==
  /\ pc[c] = "sem_wait"
  /\ hol_sem' = [hol_sem EXCEPT ![Dir(c)] = @ - 1]
  /\ pc' = [pc EXCEPT ![c] = "arrive_lock"]
  /\ UNCHANGED << cars, q, qi, quad, print_lock, turn_lock, turn_cv,
                  current_direction, flow_count, log, main_pc, main_i, slept_under >>

\* sem_wait(&hol_sem[d])
ArriveSemWait(c) ==
  /\ pc[c] = "sem_wait"
  /\ hol_sem[Dir(c)] > 0
  /\ hol_sem' = [hol_sem EXCEPT ![Dir(c)] = @ - 1]
  /\ pc' = [pc EXCEPT ![c] = "arrive_lock"]
  /\ UNCHANGED << cars, q, qi, quad, print_lock, turn_lock, turn_cv,
                  current_direction, flow_count, log, main_pc, main_i, slept_under >>

\* Pthread_mutex_lock(&turn_lock) that gives way to the woken waiters of turn_cv.
ArriveLockAfterWaiters(c) ==
  /\ pc[c] = "arrive_lock"
  /\ MutexAvailable(turn_lock)
  /\ \A w \in 1..Len(cars) : pc[w] # "cond_wait"
  /\ turn_lock' = turn_lock \cup {c}
  /\ pc' = [pc EXCEPT ![c] = "arrive_while"]
  /\ UNCHANGED << cars, q, qi, quad, print_lock, turn_cv, current_direction,
                  flow_count, hol_sem, log, main_pc, main_i, slept_under >>

\* Pthread_mutex_lock(&turn_lock)
ArriveLock(c) ==
  /\ pc[c] = "arrive_lock"
  /\ MutexAvailable(turn_lock)
  /\ turn_lock' = turn_lock \cup {c}
  /\ pc' = [pc EXCEPT ![c] = "arrive_while"]
  /\ UNCHANGED << cars, q, qi, quad, print_lock, turn_cv, current_direction,
                  flow_count, hol_sem, log, main_pc, main_i, slept_under >>

\* The threads counted in flow_count: past flow_count[d]++ or the first-car
\* assignment of the join, and before flow_count[d]-- of the leave.
Owners ==
  { o \in 1..Len(cars) :
      pc[o] \in { "arrive_unlock", "get_quads", "lock_quads_sort", "lock_quads",
                  "crossing", "crossing_unlock", "spin", "unlock_quads", "exiting",
                  "exiting_unlock", "exit_lock", "exit_dec" } }

\* ArriveIntersection without the while loop.
ArriveWhileNoWait(c) ==
  /\ pc[c] = "arrive_while"
  /\ pc' = [pc EXCEPT ![c] = "arrive_join"]
  /\ UNCHANGED << cars, q, qi, quad, print_lock, turn_lock, turn_cv, current_direction,
                  flow_count, hol_sem, log, main_pc, main_i, slept_under >>

\* The while test: pthread_cond_wait releases turn_lock and sleeps, or the loop ends.
ArriveWhile(c) ==
  /\ pc[c] = "arrive_while"
  /\ IF MustWait(Dir(c))
     THEN /\ turn_lock' = turn_lock \ {c}
          /\ turn_cv' = turn_cv \cup {c}
          /\ pc' = [pc EXCEPT ![c] = "cond_wait"]
          /\ slept_under' = [slept_under EXCEPT ![c] = @ \cup Owners]
     ELSE /\ pc' = [pc EXCEPT ![c] = "arrive_join"]
          /\ UNCHANGED << turn_lock, turn_cv, slept_under >>
  /\ UNCHANGED << cars, q, qi, quad, print_lock, current_direction,
                  flow_count, hol_sem, log, main_pc, main_i >>

\* pthread_cond_wait may return without a broadcast (a spurious wakeup).
ArriveSpuriousWake(c) ==
  /\ pc[c] = "cond_wait"
  /\ c \in turn_cv
  /\ turn_cv' = turn_cv \ {c}
  /\ UNCHANGED << cars, pc, q, qi, quad, print_lock, turn_lock, current_direction,
                  flow_count, hol_sem, log, main_pc, main_i, slept_under >>

\* pthread_cond_wait, once woken, takes turn_lock again and returns to the test.
ArriveWake(c) ==
  /\ pc[c] = "cond_wait"
  /\ c \notin turn_cv
  /\ MutexAvailable(turn_lock)
  /\ turn_lock' = turn_lock \cup {c}
  /\ pc' = [pc EXCEPT ![c] = "arrive_while"]
  /\ UNCHANGED << cars, q, qi, quad, print_lock, turn_cv, current_direction,
                  flow_count, hol_sem, log, main_pc, main_i, slept_under >>

\* Take ownership, or join the flow of the own direction.
ArriveJoin(c) ==
  /\ pc[c] = "arrive_join"
  /\ IF current_direction = -1
     THEN /\ current_direction' = Dir(c)
          /\ flow_count' = [flow_count EXCEPT ![Dir(c)] = 1]
     ELSE /\ flow_count' = [flow_count EXCEPT ![Dir(c)] = @ + 1]
          /\ UNCHANGED current_direction
  /\ pc' = [pc EXCEPT ![c] = "arrive_unlock"]
  /\ slept_under' = [slept_under EXCEPT ![c] = {}]
  /\ UNCHANGED << cars, q, qi, quad, print_lock, turn_lock, turn_cv,
                  hol_sem, log, main_pc, main_i >>

\* Pthread_mutex_unlock(&turn_lock) and return to Car.
ArriveUnlock(c) ==
  /\ pc[c] = "arrive_unlock"
  /\ turn_lock' = turn_lock \ {c}
  /\ pc' = [pc EXCEPT ![c] = "get_quads"]
  /\ UNCHANGED << cars, q, qi, quad, print_lock, turn_cv, current_direction,
                  flow_count, hol_sem, log, main_pc, main_i, slept_under >>

ArriveIntersection(c) ==
  \/ ArriveLog(c)
  \/ ArriveLogDone(c)
  \/ ArriveSemWait(c)
  \/ ArriveLock(c)
  \/ ArriveWhile(c)
  \/ ArriveSpuriousWake(c)
  \/ ArriveWake(c)
  \/ ArriveJoin(c)
  \/ ArriveUnlock(c)

\* ------------------------------------------------------- CrossIntersection

\* int n = get_quads(c, q)
CrossGetQuads(c) ==
  /\ pc[c] = "get_quads"
  /\ q' = [q EXCEPT ![c] = get_quads(cars[c])]
  /\ pc' = [pc EXCEPT ![c] = "lock_quads_sort"]
  /\ UNCHANGED << cars, qi, quad, print_lock, turn_lock, turn_cv, current_direction,
                  flow_count, hol_sem, log, main_pc, main_i, slept_under >>

\* lock_quads: the sort of q[], then i = 0.
lock_quads_sort(c) ==
  /\ pc[c] = "lock_quads_sort"
  /\ q' = [q EXCEPT ![c] = SortQuads(q[c])]
  /\ qi' = [qi EXCEPT ![c] = 0]
  /\ pc' = [pc EXCEPT ![c] = IF Len(q[c]) > 0 THEN "lock_quads" ELSE "crossing"]
  /\ UNCHANGED << cars, quad, print_lock, turn_lock, turn_cv, current_direction,
                  flow_count, hol_sem, log, main_pc, main_i, slept_under >>

\* lock_quads whose loop counts without locking.
lock_quads_counts_only(c) ==
  /\ pc[c] = "lock_quads"
  /\ qi' = [qi EXCEPT ![c] = @ + 1]
  /\ pc' = [pc EXCEPT ![c] = IF qi[c] + 1 < Len(q[c]) THEN "lock_quads" ELSE "crossing"]
  /\ UNCHANGED << cars, q, quad, print_lock, turn_lock, turn_cv, current_direction,
                  flow_count, hol_sem, log, main_pc, main_i, slept_under >>

\* lock_quads: Pthread_mutex_lock(&quad[q[i]]); i++
lock_quads(c) ==
  /\ pc[c] = "lock_quads"
  /\ MutexAvailable(quad[q[c][qi[c] + 1]])
  /\ quad' = [quad EXCEPT ![q[c][qi[c] + 1]] = @ \cup {c}]
  /\ qi' = [qi EXCEPT ![c] = @ + 1]
  /\ pc' = [pc EXCEPT ![c] = IF qi[c] + 1 < Len(q[c]) THEN "lock_quads" ELSE "crossing"]
  /\ UNCHANGED << cars, q, print_lock, turn_lock, turn_cv, current_direction,
                  flow_count, hol_sem, log, main_pc, main_i, slept_under >>

CrossLog(c) == log_event_lock(c, "crossing", "crossing", "crossing_unlock")

CrossLogDone(c) == log_event_unlock(c, "crossing_unlock", "spin")

\* CrossIntersection that returns after the Spin without unlock_quads.
CrossSpinNoUnlock(c) ==
  /\ pc[c] = "spin"
  /\ qi' = [qi EXCEPT ![c] = Len(q[c]) - 1]
  /\ pc' = [pc EXCEPT ![c] = "exiting"]
  /\ UNCHANGED << cars, q, quad, print_lock, turn_lock, turn_cv, current_direction,
                  flow_count, hol_sem, log, main_pc, main_i, slept_under >>

\* Spin(5), Spin(4) or Spin(3), then unlock_quads starts with i = n - 1.
CrossSpin(c) ==
  /\ pc[c] = "spin"
  /\ qi' = [qi EXCEPT ![c] = Len(q[c]) - 1]
  /\ pc' = [pc EXCEPT ![c] = IF Len(q[c]) > 0 THEN "unlock_quads" ELSE "exiting"]
  /\ UNCHANGED << cars, q, quad, print_lock, turn_lock, turn_cv, current_direction,
                  flow_count, hol_sem, log, main_pc, main_i, slept_under >>

\* unlock_quads: Pthread_mutex_unlock(&quad[q[i]]); i--
unlock_quads(c) ==
  /\ pc[c] = "unlock_quads"
  /\ quad' = [quad EXCEPT ![q[c][qi[c] + 1]] = @ \ {c}]
  /\ qi' = [qi EXCEPT ![c] = @ - 1]
  /\ pc' = [pc EXCEPT ![c] = IF qi[c] - 1 >= 0 THEN "unlock_quads" ELSE "exiting"]
  /\ UNCHANGED << cars, q, print_lock, turn_lock, turn_cv, current_direction,
                  flow_count, hol_sem, log, main_pc, main_i, slept_under >>

CrossIntersection(c) ==
  \/ CrossGetQuads(c)
  \/ lock_quads_sort(c)
  \/ lock_quads(c)
  \/ CrossLog(c)
  \/ CrossLogDone(c)
  \/ CrossSpin(c)
  \/ unlock_quads(c)

\* -------------------------------------------------------- ExitIntersection

ExitLog(c) == log_event_lock(c, "exiting", "exiting", "exiting_unlock")

ExitLogDone(c) == log_event_unlock(c, "exiting_unlock", "exit_lock")

\* Pthread_mutex_lock(&turn_lock)
ExitLock(c) ==
  /\ pc[c] = "exit_lock"
  /\ MutexAvailable(turn_lock)
  /\ turn_lock' = turn_lock \cup {c}
  /\ pc' = [pc EXCEPT ![c] = "exit_dec"]
  /\ UNCHANGED << cars, q, qi, quad, print_lock, turn_cv, current_direction,
                  flow_count, hol_sem, log, main_pc, main_i, slept_under >>

\* flow_count[d]--
ExitDecrement(c) ==
  /\ pc[c] = "exit_dec"
  /\ flow_count' = [flow_count EXCEPT ![Dir(c)] = @ - 1]
  /\ pc' = [pc EXCEPT ![c] = "exit_check"]
  /\ UNCHANGED << cars, q, qi, quad, print_lock, turn_lock, turn_cv,
                  current_direction, hol_sem, log, main_pc, main_i, slept_under >>

\* Leave that wakes the waiters and keeps current_direction.
ExitReleaseKeepsOwner(c) ==
  /\ pc[c] = "exit_check"
  /\ IF flow_count[Dir(c)] = 0
     THEN turn_cv' = {}
     ELSE UNCHANGED turn_cv
  /\ pc' = [pc EXCEPT ![c] = "exit_unlock"]
  /\ UNCHANGED << cars, q, qi, quad, print_lock, turn_lock, current_direction,
                  flow_count, hol_sem, log, main_pc, main_i, slept_under >>

\* Leave that frees the intersection and wakes nobody.
ExitReleaseNoBroadcast(c) ==
  /\ pc[c] = "exit_check"
  /\ IF flow_count[Dir(c)] = 0
     THEN current_direction' = -1
     ELSE UNCHANGED current_direction
  /\ pc' = [pc EXCEPT ![c] = "exit_unlock"]
  /\ UNCHANGED << cars, q, qi, quad, print_lock, turn_lock, turn_cv, flow_count,
                  hol_sem, log, main_pc, main_i, slept_under >>

\* if (flow_count[d] == 0) { current_direction = -1; pthread_cond_broadcast(&turn_cv); }
ExitRelease(c) ==
  /\ pc[c] = "exit_check"
  /\ IF flow_count[Dir(c)] = 0
     THEN /\ current_direction' = -1
          /\ turn_cv' = {}
     ELSE UNCHANGED << current_direction, turn_cv >>
  /\ pc' = [pc EXCEPT ![c] = "exit_unlock"]
  /\ UNCHANGED << cars, q, qi, quad, print_lock, turn_lock, flow_count,
                  hol_sem, log, main_pc, main_i, slept_under >>

\* Pthread_mutex_unlock(&turn_lock)
ExitUnlock(c) ==
  /\ pc[c] = "exit_unlock"
  /\ turn_lock' = turn_lock \ {c}
  /\ pc' = [pc EXCEPT ![c] = "sem_post"]
  /\ UNCHANGED << cars, q, qi, quad, print_lock, turn_cv, current_direction,
                  flow_count, hol_sem, log, main_pc, main_i, slept_under >>

\* ExitIntersection that returns without sem_post.
ExitWithoutSemPost(c) ==
  /\ pc[c] = "sem_post"
  /\ pc' = [pc EXCEPT ![c] = "done"]
  /\ UNCHANGED << cars, q, qi, quad, print_lock, turn_lock, turn_cv,
                  current_direction, flow_count, hol_sem, log, main_pc, main_i, slept_under >>

\* sem_post(&hol_sem[d]); the thread function returns.
ExitSemPost(c) ==
  /\ pc[c] = "sem_post"
  /\ hol_sem' = [hol_sem EXCEPT ![Dir(c)] = @ + 1]
  /\ pc' = [pc EXCEPT ![c] = "done"]
  /\ UNCHANGED << cars, q, qi, quad, print_lock, turn_lock, turn_cv,
                  current_direction, flow_count, log, main_pc, main_i, slept_under >>

ExitIntersection(c) ==
  \/ ExitLog(c)
  \/ ExitLogDone(c)
  \/ ExitLock(c)
  \/ ExitDecrement(c)
  \/ ExitRelease(c)
  \/ ExitUnlock(c)
  \/ ExitSemPost(c)

\* ------------------------------------------------------------ Car and main

\* The thread function: ARRIVE, CROSS, EXIT in order.
Car(c) ==
  \/ ArriveIntersection(c)
  \/ CrossIntersection(c)
  \/ ExitIntersection(c)

\* main: Pthread_create(&tids[i], NULL, Car, &cars[i]); i++
MainCreate ==
  /\ main_pc = "create"
  /\ main_i < Len(cars)
  /\ pc' = [pc EXCEPT ![main_i + 1] = "arriving"]
  /\ main_i' = main_i + 1
  /\ main_pc' = main_pc
  /\ UNCHANGED << cars, q, qi, quad, print_lock, turn_lock, turn_cv,
                  current_direction, flow_count, hol_sem, log, slept_under >>

\* main: the create loop ends, the join loop starts with i = 0.
MainCreated ==
  /\ main_pc = "create"
  /\ main_i = Len(cars)
  /\ main_pc' = "join"
  /\ main_i' = 0
  /\ UNCHANGED << cars, pc, q, qi, quad, print_lock, turn_lock, turn_cv,
                  current_direction, flow_count, hol_sem, log, slept_under >>

\* main: Pthread_join(tids[i], NULL) returns once thread i has returned; i++
MainJoin ==
  /\ main_pc = "join"
  /\ main_i < Len(cars)
  /\ pc[main_i + 1] = "done"
  /\ main_i' = main_i + 1
  /\ main_pc' = main_pc
  /\ UNCHANGED << cars, pc, q, qi, quad, print_lock, turn_lock, turn_cv,
                  current_direction, flow_count, hol_sem, log, slept_under >>

\* main: return 0
MainReturn ==
  /\ main_pc = "join"
  /\ main_i = Len(cars)
  /\ main_pc' = "exit"
  /\ main_i' = main_i
  /\ UNCHANGED << cars, pc, q, qi, quad, print_lock, turn_lock, turn_cv,
                  current_direction, flow_count, hol_sem, log, slept_under >>

main ==
  \/ MainCreate
  \/ MainCreated
  \/ MainJoin
  \/ MainReturn

\* ------------------------------------------------------------ specification

\* The state main sets up before it creates the first thread.
Init ==
  /\ cars \in Manifests
  /\ pc = [c \in 1..Len(cars) |-> "not_created"]
  /\ q = [c \in 1..Len(cars) |-> << >>]
  /\ qi = [c \in 1..Len(cars) |-> 0]
  /\ quad = [k \in 0..3 |-> {}]
  /\ print_lock = {}
  /\ turn_lock = {}
  /\ turn_cv = {}
  /\ current_direction = -1
  /\ flow_count = [d \in 0..3 |-> 0]
  /\ hol_sem = [d \in 0..3 |-> 1]
  /\ log = << >>
  /\ main_pc = "create"
  /\ main_i = 0
  /\ slept_under = [c \in 1..Len(cars) |-> {}]

\* main and the car threads interleave step by step: main, or Car(c) of some c.
Next ==
  \/ MainCreate
  \/ MainCreated
  \/ MainJoin
  \/ MainReturn
  \/ \E c \in Threads : ArriveLog(c)
  \/ \E c \in Threads : ArriveLogDone(c)
  \/ \E c \in Threads : ArriveSemWait(c)
  \/ \E c \in Threads : ArriveLock(c)
  \/ \E c \in Threads : ArriveWhile(c)
  \/ \E c \in Threads : ArriveSpuriousWake(c)
  \/ \E c \in Threads : ArriveWake(c)
  \/ \E c \in Threads : ArriveJoin(c)
  \/ \E c \in Threads : ArriveUnlock(c)
  \/ \E c \in Threads : CrossGetQuads(c)
  \/ \E c \in Threads : lock_quads_sort(c)
  \/ \E c \in Threads : lock_quads(c)
  \/ \E c \in Threads : CrossLog(c)
  \/ \E c \in Threads : CrossLogDone(c)
  \/ \E c \in Threads : CrossSpin(c)
  \/ \E c \in Threads : unlock_quads(c)
  \/ \E c \in Threads : ExitLog(c)
  \/ \E c \in Threads : ExitLogDone(c)
  \/ \E c \in Threads : ExitLock(c)
  \/ \E c \in Threads : ExitDecrement(c)
  \/ \E c \in Threads : ExitRelease(c)
  \/ \E c \in Threads : ExitUnlock(c)
  \/ \E c \in Threads : ExitSemPost(c)

Spec == Init /\ [][Next]_vars

\* A step of thread c that is not a spurious return of pthread_cond_wait.
CarStep(c) ==
  /\ c \in Threads
  /\ \/ ArriveLog(c)
     \/ ArriveLogDone(c)
     \/ ArriveSemWait(c)
     \/ ArriveLock(c)
     \/ ArriveWhile(c)
     \/ ArriveWake(c)
     \/ ArriveJoin(c)
     \/ ArriveUnlock(c)
     \/ CrossIntersection(c)
     \/ ExitIntersection(c)

\* Fair scheduling: main and every thread keep running, and a thread that finds
\* a mutex or semaphore free again and again eventually takes it.  A spurious
\* wakeup is allowed and never owed.
FairSpec ==
  /\ Spec
  /\ WF_vars(main)
  /\ \A c \in 1..MaxCars : SF_vars(CarStep(c))

\* ------------------------------------------------------------ phases

\* The quadrant mutexes thread c holds.
Held(c) == { k \in 0..3 : c \in quad[k] }

\* Thread c has returned from sem_wait and has not yet called sem_post.
HoldsToken(c) ==
  pc[c] \in { "arrive_lock", "arrive_while", "cond_wait", "arrive_join", "arrive_unlock",
              "get_quads", "lock_quads_sort", "lock_quads", "crossing",
              "crossing_unlock", "spin", "unlock_quads", "exiting", "exiting_unlock",
              "exit_lock", "exit_dec", "exit_check", "exit_unlock", "sem_post" }

\* Thread c has completed Join and has not yet started Leave's decrement.
InFlow(c) ==
  pc[c] \in { "arrive_unlock", "get_quads", "lock_quads_sort", "lock_quads", "crossing",
              "crossing_unlock", "spin", "unlock_quads", "exiting", "exiting_unlock",
              "exit_lock", "exit_dec" }

\* Thread c has completed Join and has not yet completed Leave.
MidCrossing(c) == InFlow(c) \/ pc[c] = "exit_check"

\* Thread c has completed Leave.
HasLeft(c) == pc[c] \in { "exit_unlock", "sem_post", "done" }

\* Thread c cannot take a step until another thread acts.
Blocked(c) ==
  CASE pc[c] = "not_created" -> TRUE
    [] pc[c] \in { "arriving", "crossing", "exiting" } -> ~MutexAvailable(print_lock)
    [] pc[c] = "sem_wait" -> hol_sem[Dir(c)] <= 0
    [] pc[c] \in { "arrive_lock", "exit_lock" } -> ~MutexAvailable(turn_lock)
    [] pc[c] = "cond_wait" -> c \in turn_cv \/ ~MutexAvailable(turn_lock)
    [] pc[c] = "lock_quads" -> ~MutexAvailable(quad[q[c][qi[c] + 1]])
    [] pc[c] = "done" -> TRUE
    [] OTHER -> FALSE

\* ------------------------------------------------------------ claims

\* C1: every quadrant mutex is held by at most one thread, so no two threads
\* between lock_quads and unlock_quads hold a common quadrant.
QuadrantMutualExclusion ==
  /\ \A k \in 0..3 : Cardinality(quad[k]) <= 1
  /\ \A a \in Threads : \A b \in Threads : a # b => Held(a) \cap Held(b) = {}

\* C1 witness: a thread holds a quadrant that another created thread of the
\* manifest needs and has not yet crossed.
QuadrantHeldWhileNeeded ==
  \E a \in Threads : \E b \in Threads :
    /\ a # b
    /\ pc[a] = "spin"
    /\ pc[b] \in { "sem_wait", "arrive_lock", "cond_wait" }
    /\ \E k \in Held(a) : \E n \in 1..Len(get_quads(cars[b])) : get_quads(cars[b])[n] = k

\* C2: a thread that has completed Join and not yet completed Leave finds
\* current_direction equal to its own direction, a thread about to join never
\* finds another direction owning, and two threads of different directions are
\* never mid-crossing together.
CrossDirectionExclusion ==
  /\ \A c \in Threads : MidCrossing(c) => current_direction = Dir(c)
  /\ \A c \in Threads : pc[c] = "arrive_join" => ~MustWait(Dir(c))
  /\ \A a \in Threads : \A b \in Threads :
       MidCrossing(a) /\ MidCrossing(b) => Dir(a) = Dir(b)

\* C2 witness: a thread is mid-crossing while a thread of another direction
\* sleeps on turn_cv.
OtherDirectionWaits ==
  \E a \in Threads : \E b \in Threads :
    /\ Dir(a) # Dir(b)
    /\ pc[a] = "spin"
    /\ pc[b] = "cond_wait"
    /\ b \in turn_cv

\* C3: whenever no thread holds turn_lock, every flow_count is >= 0, only
\* current_direction has a positive flow_count, and current_direction is -1
\* exactly when all four counts are 0.
FlowStateInvariant ==
  turn_lock = {} =>
    /\ \A d \in 0..3 : flow_count[d] >= 0
    /\ \A d \in 0..3 : flow_count[d] > 0 => d = current_direction
    /\ current_direction = -1 <=> \A d \in 0..3 : flow_count[d] = 0

\* C3 witness: turn_lock is free again after a Leave that followed a Join of
\* another thread, with a direction owning the intersection.
FlowOwnedAfterHandoff ==
  /\ turn_lock = {}
  /\ current_direction # -1
  /\ flow_count[current_direction] > 0
  /\ \E c \in Threads : pc[c] = "done"

\* The wait-for relation among the quadrant mutexes: a waits for a quadrant b holds.
WaitsForQuad(a, b) ==
  /\ a # b
  /\ pc[a] = "lock_quads"
  /\ b \in quad[q[a][qi[a] + 1]]

\* The threads reachable from a in n steps of the wait-for relation.
RECURSIVE ReachQuad(_, _)
ReachQuad(S, n) ==
  IF n = 0 THEN S
  ELSE ReachQuad(S \cup { b \in Threads : \E a \in S : WaitsForQuad(a, b) }, n - 1)

\* C4: while some car has not finished, some thread (or main, still creating
\* threads) can take a step, and the wait-for relation among the quadrant
\* mutexes has no cycle.
DeadlockFreedom ==
  /\ (\E c \in Threads : pc[c] # "done") =>
       \/ main_pc = "create"
       \/ \E c \in Threads : ~Blocked(c)
  /\ \A a \in Threads :
       a \notin ReachQuad({ b \in Threads : WaitsForQuad(a, b) }, Len(cars))

\* C4 witness: every unfinished thread but one is blocked (on a semaphore, on
\* turn_cv) behind the one that crosses.
AllButOneBlocked ==
  /\ Len(cars) >= 3
  /\ \E a \in Threads :
       /\ pc[a] = "spin"
       /\ \A b \in Threads \ {a} : pc[b] \in { "sem_wait", "cond_wait" } /\ Blocked(b)
       /\ \E b \in Threads : pc[b] = "sem_wait"
       /\ \E b \in Threads : pc[b] = "cond_wait"

\* Every car has returned from ExitIntersection and main has returned 0.
AllExited ==
  /\ main_pc = "exit"
  /\ \A c \in Threads : pc[c] = "done"

\* C5: under fair scheduling every car completes ExitIntersection, main's
\* joins return and main returns.
Termination == <>AllExited

\* C5 witness: a manifest of three cars has run to the end.
ThreeCarsExited == AllExited /\ Len(cars) >= 3

\* C6: same-direction cars do not block each other before the quadrant layer:
\* a car waiting at the stop sign whose direction owns the intersection, with a
\* car of its direction already past Join, can take the head-of-line token and
\* join the flow (so that flow_count of the direction reaches 2).
SameDirectionJoinsFlow ==
  \A a \in Threads : \A b \in Threads :
    ( /\ a # b
      /\ Dir(a) = Dir(b)
      /\ InFlow(a)
      /\ pc[b] = "sem_wait" )
    => ~Blocked(b)

\* C7: every hol_sem is 0 or 1, at most one car of a direction is between its
\* sem_wait and its sem_post, and the semaphore is 0 for as long as one is:
\* over Join, crossing and Leave.
HeadOfLineToken ==
  \A d \in 0..3 :
    /\ hol_sem[d] \in {0, 1}
    /\ Cardinality({ c \in Threads : Dir(c) = d /\ HoldsToken(c) }) <= 1
    /\ hol_sem[d] = 1 - Cardinality({ c \in Threads : Dir(c) = d /\ HoldsToken(c) })

\* C7 witness: a car holds the token of its direction in Leave while another car
\* of that direction waits for it.
TokenHeldInLeave ==
  \E a \in Threads : \E b \in Threads :
    /\ a # b
    /\ Dir(a) = Dir(b)
    /\ pc[a] = "exit_check"
    /\ pc[b] = "sem_wait"
    /\ hol_sem[Dir(a)] = 0

\* The two-car manifest North going straight, East heading North: entries 6
\* and 7 of the hard-coded manifest, threads 1 and 2.
EndToEndManifest == SubSeq(HardCodedCars, 6, 7)

\* The position of a line in the log, 0 when it has not been printed.
LogPos(cid, event) ==
  IF \E i \in 1..Len(log) : log[i] = <<cid, event>>
  THEN CHOOSE i \in 1..Len(log) : log[i] = <<cid, event>>
  ELSE 0

\* Thread c has completed Join (and perhaps everything after it).
PastJoin(c) == MidCrossing(c) \/ HasLeft(c)

\* C8 as stated: with car 1 (cid 6) arriving first, car 1 becomes owner and car 2
\* (cid 7) completes Join only after car 1's Leave; car 1's "exiting" line
\* precedes car 2's "crossing" line.
EndToEndOrdering ==
  ( /\ cars = EndToEndManifest
    /\ LogPos(6, "arriving") > 0
    /\ LogPos(7, "arriving") = 0 \/ LogPos(6, "arriving") < LogPos(7, "arriving") )
  => /\ PastJoin(2) => HasLeft(1)
     /\ MidCrossing(1) => current_direction = DIR_N
     /\ LogPos(7, "crossing") > 0 =>
          LogPos(6, "exiting") > 0 /\ LogPos(6, "exiting") < LogPos(7, "crossing")

\* C8 amended: in that manifest the car that completes Join first is the owner,
\* the other completes Join only after the owner's Leave, and the log shows the
\* "exiting" line of the car that crossed first before the "crossing" line of
\* the other; which of the two it is does not follow from the arrival order.
EndToEndOrderingByJoin ==
  cars = EndToEndManifest =>
    \A a \in Threads : \A b \in Threads \ {a} :
      /\ MidCrossing(a) => current_direction = Dir(a)
      /\ PastJoin(a) /\ PastJoin(b) => HasLeft(a) \/ HasLeft(b)
      /\ ( /\ LogPos(cars[a].cid, "crossing") > 0
           /\ LogPos(cars[a].cid, "crossing") < LogPos(cars[b].cid, "crossing") )
         => /\ LogPos(cars[a].cid, "exiting") > 0
            /\ LogPos(cars[a].cid, "exiting") < LogPos(cars[b].cid, "crossing")

\* C8 witness: the run of the scenario to its end, car 1 first throughout.
EndToEndRun ==
  /\ cars = EndToEndManifest
  /\ AllExited
  /\ log = << <<6, "arriving">>, <<7, "arriving">>, <<6, "crossing">>,
              <<6, "exiting">>, <<7, "crossing">>, <<7, "exiting">> >>

\* C9: a thread about to lock quad[q[i]] holds only quadrants of a smaller
\* index, and a thread about to unlock quad[q[i]] holds it and no quadrant of a
\* larger index.
OrderedAcquisition ==
  \A c \in Threads :
    /\ pc[c] = "lock_quads" =>
         /\ \A k \in Held(c) : k < q[c][qi[c] + 1]
         /\ Cardinality(Held(c)) = qi[c]
    /\ pc[c] = "unlock_quads" =>
         /\ q[c][qi[c] + 1] \in Held(c)
         /\ \A k \in Held(c) : k <= q[c][qi[c] + 1]
         /\ Cardinality(Held(c)) = qi[c] + 1

\* C9 witness: the car from East turning left, whose quadrants get_quads lists
\* as SE, SW, NW, holds NW and SE and is about to lock SW.
LeftTurnFromEastLocksLast ==
  \E c \in Threads :
    /\ get_quads(cars[c]) = <<SE, SW, NW>>
    /\ pc[c] = "lock_quads"
    /\ Held(c) = {NW, SE}
    /\ q[c][qi[c] + 1] = SW

\* The canonical table: origin, destination, turn kind, quadrant set.
CanonicalTable ==
  { <<"^", ">", RIGHT_T, {NE}>>, <<"^", "^", STRAIGHT_T, {NE, SE}>>,
    <<"^", "<", LEFT_T, {NE, SE, SW}>>,
    <<">", "v", RIGHT_T, {SE}>>, <<">", ">", STRAIGHT_T, {SE, SW}>>,
    <<">", "^", LEFT_T, {SE, SW, NW}>>,
    <<"v", "<", RIGHT_T, {SW}>>, <<"v", "v", STRAIGHT_T, {SW, NW}>>,
    <<"v", ">", LEFT_T, {SW, NW, NE}>>,
    <<"<", "^", RIGHT_T, {NW}>>, <<"<", "<", STRAIGHT_T, {NW, NE}>>,
    <<"<", "v", LEFT_T, {NW, NE, SE}>> }

\* The number of quadrants of a turn kind.
QuadrantCount(t) == IF t = RIGHT_T THEN 1 ELSE IF t = STRAIGHT_T THEN 2 ELSE 3

\* C10: for a car of any of the 12 pairs of the canonical table, get_turn is
\* the listed turn kind and the array q[] filled by get_quads holds exactly the
\* listed quadrants, 1 for Right, 2 for Straight, 3 for Left.
TurnClassificationTable ==
  \A c \in Threads :
    pc[c] \notin { "not_created", "arriving", "arriving_unlock", "sem_wait", "arrive_lock",
                   "arrive_while", "cond_wait", "arrive_join", "arrive_unlock",
                   "get_quads" }
    => \A row \in CanonicalTable :
         (cars[c].dir_original = row[1] /\ cars[c].dir_target = row[2])
         => /\ get_turn([dir_original |-> cars[c].dir_original,
                         dir_target |-> cars[c].dir_target]) = row[3]
            /\ { q[c][n] : n \in 1..Len(q[c]) } = row[4]
            /\ Len(q[c]) = QuadrantCount(row[3])

\* C10 witness: the car West -> South has filled q[] with NW, NE, SE.
WestToSouthClassified ==
  \E c \in Threads :
    /\ cars[c].dir_original = "<"
    /\ cars[c].dir_target = "v"
    /\ pc[c] = "lock_quads_sort"
    /\ q[c] = <<NW, NE, SE>>

\* C12: a Leave that brings flow_count[d] to 0 has set current_direction to -1
\* and emptied turn_cv before it gives up turn_lock; a car past the while loop
\* has found the intersection free or its own; and no car is asleep on turn_cv
\* while turn_lock is free and current_direction is -1.
NoLostWakeup ==
  /\ \A c \in Threads :
       pc[c] = "exit_unlock" => current_direction = -1 /\ turn_cv = {}
  /\ \A c \in Threads : pc[c] = "arrive_join" => ~MustWait(Dir(c))
  /\ (turn_lock = {} /\ current_direction = -1) => turn_cv = {}

\* C12 witness: a Leave has freed the intersection and a car it woke has not
\* yet taken turn_lock again.
WokenAfterRelease ==
  \E a \in Threads : \E b \in Threads :
    /\ pc[a] = "sem_post"
    /\ pc[b] = "cond_wait"
    /\ b \notin turn_cv
    /\ turn_lock = {}
    /\ current_direction = -1

\* C13: a car holding a quadrant mutex is counted in flow_count of its
\* direction, which owns the intersection, and a car counted in flow_count
\* holds the head-of-line token of its direction (hol_sem is 0); a car outside
\* CrossIntersection holds no quadrant.
NestedResourceProtocol ==
  \A c \in Threads :
    /\ Held(c) # {} =>
         /\ InFlow(c)
         /\ flow_count[Dir(c)] >= 1
         /\ current_direction = Dir(c)
         /\ hol_sem[Dir(c)] = 0
    /\ InFlow(c) => flow_count[Dir(c)] >= 1 /\ hol_sem[Dir(c)] = 0
    /\ pc[c] \in { "exiting", "exiting_unlock", "exit_lock", "exit_dec", "exit_check",
                   "exit_unlock", "sem_post", "done" } => Held(c) = {}

\* C13 witness: a car has given up its quadrants and its flow membership and
\* still holds the token a second car of its direction waits for.
TokenReleasedLast ==
  \E a \in Threads : \E b \in Threads :
    /\ a # b
    /\ Dir(a) = Dir(b)
    /\ pc[a] = "sem_post"
    /\ Held(a) = {}
    /\ flow_count[Dir(a)] = 0
    /\ hol_sem[Dir(a)] = 0
    /\ pc[b] = "sem_wait"

\* The lifecycle state of thread c: 0 Scheduled, 1 Arrived, 2 FlowAcquired,
\* 3 Crossing, 4 Exited.
Lifecycle(c) ==
  IF pc[c] \in { "not_created", "arriving" } THEN 0
  ELSE IF pc[c] \in { "arriving_unlock", "sem_wait", "arrive_lock", "arrive_while",
                      "cond_wait", "arrive_join" } THEN 1
  ELSE IF pc[c] \in { "arrive_unlock", "get_quads", "lock_quads_sort", "lock_quads",
                      "crossing" } THEN 2
  ELSE IF pc[c] = "done" THEN 4
  ELSE 3

\* The number of times a line is in the log.
LogCount(cid, event) ==
  Cardinality({ i \in 1..Len(log) : log[i] = <<cid, event>> })

\* The quadrants thread c needs.
Required(c) == { get_quads(cars[c])[n] : n \in 1..Len(get_quads(cars[c])) }

\* The lines of thread c in the log are those its position accounts for, each
\* once and in the order arriving, crossing, exiting; "crossing" is printed with
\* every required quadrant held.
LifecycleLogged ==
  \A c \in Threads :
    /\ pc[c] \in { "crossing", "crossing_unlock" } => Held(c) = Required(c)
    /\ Len(cars) <= MaxLogCars =>
         /\ LogCount(cars[c].cid, "arriving") = (IF Lifecycle(c) >= 1 THEN 1 ELSE 0)
         /\ LogCount(cars[c].cid, "crossing") = (IF Lifecycle(c) >= 3 THEN 1 ELSE 0)
         /\ LogCount(cars[c].cid, "exiting") =
              (IF Lifecycle(c) = 4 \/ (Lifecycle(c) = 3 /\ Held(c) = {}
                                        /\ pc[c] # "exiting")
               THEN 1 ELSE 0)
         /\ LogPos(cars[c].cid, "crossing") > 0 =>
              LogPos(cars[c].cid, "arriving") < LogPos(cars[c].cid, "crossing")
         /\ LogPos(cars[c].cid, "exiting") > 0 =>
              LogPos(cars[c].cid, "crossing") < LogPos(cars[c].cid, "exiting")

\* A step moves a thread to the next lifecycle state or leaves it where it is,
\* and leaves an Exited thread alone.
LifecycleStep ==
  \A c \in Threads :
    /\ Lifecycle(c)' \in { Lifecycle(c), Lifecycle(c) + 1 }
    /\ pc[c] = "done" => pc'[c] = "done"

\* C14: every car passes Scheduled, Arrived, FlowAcquired, Crossing, Exited in
\* that order, Exited is terminal, and it prints one "arriving", one "crossing"
\* and one "exiting" line in that order, "crossing" with all its quadrants held.
PerCarLifecycle == [](LifecycleLogged) /\ [][LifecycleStep]_vars

\* C14 witness: a left-turning car has printed "arriving" and "crossing", holds
\* its three quadrants and has not printed "exiting".
CrossingLineWithQuadrants ==
  \E c \in Threads :
    /\ Len(cars) <= MaxLogCars
    /\ Len(cars) >= 2
    /\ pc[c] = "crossing_unlock"
    /\ Cardinality(Held(c)) = 3
    /\ LogCount(cars[c].cid, "crossing") = 1
    /\ LogCount(cars[c].cid, "exiting") = 0

\* C15: a thread that holds a quadrant mutex is never suspended on a mutex,
\* semaphore or condition that another thread holds or must signal, print_lock
\* of log_event("crossing") and the quadrant mutexes still to lock included.
QuadrantHolderNeverWaits ==
  \A c \in Threads : Held(c) # {} => ~Blocked(c)

\* The threads between the end of their join (flow_count[d]++ or the
\* first-car assignment) and the end of their leave (the unlock of turn_lock).
Joined == { c \in Threads : MidCrossing(c) \/ pc[c] = "exit_unlock" }

QuadrantsNeverContended ==
  \A c \in Threads :
    pc[c] = "lock_quads" =>
      /\ MutexAvailable(quad[q[c][qi[c] + 1]])
      /\ \A b \in Threads \ {c} : Held(b) = {}

\* C18 witness: a car is about to lock a quadrant that a car which has already
\* left the intersection needed for its own crossing.
LocksQuadrantUsedBefore ==
  \E c, b \in Threads :
    /\ b # c
    /\ pc[c] = "lock_quads"
    /\ qi[c] >= 1
    /\ HasLeft(b)
    /\ q[c][qi[c] + 1] \in Required(b)

\* C19: in the log, after a car's "crossing" line and up to that car's "exiting"
\* line, every line of another car is an "arriving" line.
DisjointCrossingIntervals ==
  \A i \in 1..Len(log) : \A j \in 1..Len(log) :
    ( /\ i < j
      /\ log[i][2] = "crossing"
      /\ log[j][1] # log[i][1]
      /\ \A k \in (i + 1)..(j - 1) : log[k] # <<log[i][1], "exiting">> )
    => log[j][2] = "arriving"

\* C19 witness: another car's "arriving" line lies between a car's "crossing"
\* line and its "exiting" line.
ArrivingInsideCrossingInterval ==
  \E i \in 1..Len(log) :
    /\ i + 2 <= Len(log)
    /\ log[i][2] = "crossing"
    /\ log[i + 1][2] = "arriving"
    /\ log[i + 2] = <<log[i][1], "exiting">>

\* C20: a finished thread holds no quadrant mutex, no head-of-line token (each
\* hol_sem[d] is 1 less the threads of d between sem_wait and sem_post), neither
\* turn_lock nor print_lock, sleeps on no condition and is not counted in
\* flow_count (flow_count[d] is the number of threads of d in the flow); once
\* every thread has finished, the shared state is the initial one.
CleanQuiescentState ==
  /\ \A c \in Threads :
       pc[c] = "done" =>
         /\ Held(c) = {}
         /\ c \notin turn_lock
         /\ c \notin print_lock
         /\ c \notin turn_cv
  /\ \A d \in 0..3 :
       /\ hol_sem[d] = 1 - Cardinality({ c \in Threads : HoldsToken(c) /\ Dir(c) = d })
       /\ flow_count[d] = Cardinality({ c \in Threads : InFlow(c) /\ Dir(c) = d })
  /\ (main_pc # "create" /\ \A c \in Threads : pc[c] = "done") =>
       /\ current_direction = -1
       /\ flow_count = [d \in 0..3 |-> 0]
       /\ hol_sem = [d \in 0..3 |-> 1]
       /\ quad = [n \in 0..3 |-> {}]
       /\ turn_lock = {}
       /\ print_lock = {}
       /\ turn_cv = {}

\* C20 witness: the cars of a manifest with two origins have all finished and
\* main is in its join loop.
QuiescentAfterHandoff ==
  /\ main_pc = "join"
  /\ \A c \in Threads : pc[c] = "done"
  /\ \E a, b \in Threads : Dir(a) # Dir(b)
  /\ current_direction = -1

\* C16: the handoff has no order among the waiters. When the intersection is
\* released and turn_lock is free, every thread at the lock of its join and
\* every thread in pthread_cond_wait can take turn_lock next, whenever it
\* blocked; a waiter has slept only under owners of another direction, and
\* nothing but the while test decides whether it sleeps again.
UnorderedHandoff ==
  /\ (current_direction = -1 /\ MutexAvailable(turn_lock)) =>
       \A c \in Threads :
         /\ pc[c] = "arrive_lock" => ENABLED ArriveLock(c)
         /\ pc[c] = "cond_wait" => ENABLED ArriveWake(c)
  /\ \A c \in Threads :
       /\ \A o \in slept_under[c] : o # c /\ Dir(o) # Dir(c) /\ PastJoin(o)
       /\ slept_under[c] # {} => pc[c] \in { "cond_wait", "arrive_while", "arrive_join" }
       /\ (pc[c] = "cond_wait" /\ c \in turn_cv) => slept_under[c] # {}

\* C16 witness: car c slept under owner a, was woken when a left, found the
\* intersection owned by b, a car of a's direction that took the head-of-line
\* token only after a returned it, and sleeps again while b crosses.
BlockedAgainBehindLaterJoiner ==
  \E a, b, c \in Threads :
    /\ a # b /\ Dir(a) = Dir(b)
    /\ slept_under[c] = { a, b }
    /\ pc[c] = "cond_wait" /\ c \in turn_cv
    /\ HasLeft(a)
    /\ InFlow(b)

\* ------------------------------------------------- invalid manifest entries

\* Manifest entries with a direction character that is none of the four:
\* dir_index returns -1 for it.
InvalidEntries ==
  { [cid |-> 9, dir_original |-> "x", dir_target |-> "^"],
    [cid |-> 9, dir_original |-> "^", dir_target |-> "x"],
    [cid |-> 9, dir_original |-> "x", dir_target |-> "x"] }

\* Manifests with one invalid entry after two valid cars of the hard-coded manifest.
ConfigManifests ==
  { Append(SubSeq(HardCodedCars, 7, 8), e) : e \in InvalidEntries }

\* The state after construction with such a manifest. hol_sem[-1] and
\* flow_count[-1] are the memory before the arrays, which the code reads and
\* writes with d = -1: the content sem_wait finds there is arbitrary (the call
\* blocks or returns), flow_count[-1] is written by the join before it is read.
ConfigInit ==
  /\ cars \in ConfigManifests
  /\ pc = [c \in 1..Len(cars) |-> "not_created"]
  /\ q = [c \in 1..Len(cars) |-> << >>]
  /\ qi = [c \in 1..Len(cars) |-> 0]
  /\ quad = [k \in 0..3 |-> {}]
  /\ print_lock = {}
  /\ turn_lock = {}
  /\ turn_cv = {}
  /\ current_direction = -1
  /\ flow_count = [d \in -1..3 |-> 0]
  /\ hol_sem \in { [d \in -1..3 |-> IF d = -1 THEN g ELSE 1] : g \in { 0, 1 } }
  /\ log = << >>
  /\ main_pc = "create"
  /\ main_i = 0
  /\ slept_under = [c \in 1..Len(cars) |-> {}]

ConfigSpec == ConfigInit /\ [][Next]_vars

\* Thread c runs a manifest entry with an invalid origin or destination.
InvalidEntry(c) ==
  \/ cars[c].dir_original \notin DirChars
  \/ cars[c].dir_target \notin DirChars

\* C11: with an invalid manifest entry the program stops before any car thread
\* starts, and no thread takes the sentinel -1 of dir_index to the head-of-line
\* semaphore, the flow state or the quadrant locking.
ConfigurationErrorAborts ==
  /\ (\E c \in Threads : InvalidEntry(c)) => \A c \in Threads : pc[c] = "not_created"
  /\ \A c \in Threads : Dir(c) = -1 => pc[c] \in { "not_created", "arriving", "arriving_unlock" }

====
